---- MODULE Spec2Model ----
(***************************************************************************)
(* Request engine of the Open Cloud SDK: HttpClient.request (http.ts), the *)
(* error classes (errors.ts), the OpenCloud client with its withAuth       *)
(* scoped clients (index.ts) and the resource methods that build a query   *)
(* (groups.ts, universes.ts).  The variable called holds the resource      *)
(* method call that is being served and its arguments.                     *)
(*                                                                         *)
(* An optional JavaScript value is a sequence of length 0 (undefined) or 1 *)
(* (the value).  A Headers object or a parsed JSON object is a function    *)
(* from names to strings.  A header value that is read as a number is a    *)
(* sequence of decimal digits.                                             *)
(***************************************************************************)
EXTENDS Integers, Sequences, FiniteSets, TLC

VARIABLES options, authOverride, inv, backoff, called

vars == <<options, authOverride, inv, backoff, called>>

-----------------------------------------------------------------------------
(* Bounds of the model *)

MaxAttempts == 3
RandDen == 2
MaxScoped == 2
FineDen == 16
MaxBaseMs == 4
MaxIndex == 4
MaxConcurrent == 2

-----------------------------------------------------------------------------
(* JavaScript values *)

Undefined == <<>>
Some(v) == <<v>>
IsDefined(o) == o # <<>>
Get(o) == o[1]

EmptyObject == [k \in {} |-> ""]

\* { ...a, ...b }: the later spread wins
Spread(a, b) == b @@ a

\* a ?? b
Coalesce(o, d) == IF IsDefined(o) THEN Get(o) ELSE d

RECURSIVE Pow2(_)
Pow2(n) == IF n = 0 THEN 1 ELSE 2 * Pow2(n - 1)

MathTrunc(num, den) == num \div den

MathCeil(num, den) == (num + den - 1) \div den

\* Math.round of the non-negative rational num / den
MathRound(num, den) == (2 * num + den) \div (2 * den)

\* parseFloat of a string of decimal digits
RECURSIVE parseFloat(_)
parseFloat(digits) ==
  IF digits = <<>> THEN 0
  ELSE 10 * parseFloat(SubSeq(digits, 1, Len(digits) - 1)) + digits[Len(digits)]

\* a value is truthy: defined and neither 0 nor the empty string
TruthyNumber(o) == IsDefined(o) /\ Get(o) # 0

TruthyString(o) == IsDefined(o) /\ Get(o) # ""

\* new Date().toISOString()
Instants == {"2026-01-01T00:00:00.000Z"}

\* the application/x-www-form-urlencoded serializer on the names and values
\* that occur: only ':' is outside its safe set
FormEncode(text) ==
  IF text = "2026-01-01T00:00:00.000Z" THEN "2026-01-01T00%3A00%3A00.000Z" ELSE text

\* a URLSearchParams object is the sequence of its [name, value] pairs
URLSearchParams == <<>>

\* URLSearchParams.set on an object whose names are distinct, as they are in
\* the resource methods: the pair of that name takes the value, a new name is
\* appended
URLSearchParamsSet(sp, name, value) ==
  IF \E k \in DOMAIN sp : sp[k].name = name
    THEN [k \in DOMAIN sp |-> IF sp[k].name = name THEN [name |-> name, value |-> value]
                                ELSE sp[k]]
    ELSE Append(sp, [name |-> name, value |-> value])

RECURSIVE URLSearchParamsToString(_)
URLSearchParamsToString(sp) ==
  IF sp = <<>> THEN ""
  ELSE IF Len(sp) = 1 THEN FormEncode(sp[1].name) \o "=" \o FormEncode(sp[1].value)
  ELSE FormEncode(sp[1].name) \o "=" \o FormEncode(sp[1].value) \o "&"
         \o URLSearchParamsToString(Tail(sp))

-----------------------------------------------------------------------------
(* Response bodies and JSON *)

BodyEmpty == ""
BodyMalformed == "<html>"
BodyNotFound == "{\"message\":\"not found\",\"code\":\"not_found\"}"
BodyOk == "{\"ok\":true}"

Bodies == {BodyEmpty, BodyMalformed, BodyNotFound, BodyOk}

\* JSON.parse: ok = FALSE stands for the SyntaxError it throws
JSONparse(text) ==
  IF text = BodyNotFound
    THEN [ok |-> TRUE, value |-> ("message" :> "not found" @@ "code" :> "not_found")]
  ELSE IF text = BodyOk
    THEN [ok |-> TRUE, value |-> ("ok" :> "true")]
  ELSE [ok |-> FALSE, value |-> EmptyObject]

CodeOfMessage(details) ==
  IF IsDefined(details) /\ "message" \in DOMAIN Get(details)
    THEN Some(Get(details)["message"])
    ELSE Undefined

\* details?.code
CodeOf(details) ==
  IF IsDefined(details) /\ "code" \in DOMAIN Get(details)
    THEN Some(Get(details)["code"])
    ELSE Undefined

-----------------------------------------------------------------------------
(* The transport's responses *)

Statuses == {200, 204, 401, 403, 404, 429, 500, 503}

\* the x-ratelimit-reset header: absent, "0" or "2"
ResetHeaders == {[has |-> FALSE, val |-> <<>>],
                 [has |-> TRUE, val |-> <<0>>],
                 [has |-> TRUE, val |-> <<2>>]}

Responses == [status : Statuses, reset : ResetHeaders, body : Bodies]

\* response.headers.get("x-ratelimit-reset") used as a condition: null and
\* the empty string are falsy
HeaderTruthy(h) == h.has /\ h.val # <<>>

ResponseOkOnly200(status) == status = 200

\* response.ok
ResponseOk(status) == status >= 200 /\ status <= 299

-----------------------------------------------------------------------------
(* errors.ts *)

OpenCloudError(message, status, code, details) ==
  [class |-> "OpenCloudError", message |-> message, status |-> status,
   code |-> code, details |-> details, retryAfter |-> Undefined]

RateLimitError(message, retryAfter, details) ==
  [OpenCloudError(message, Some(429), Some("rate_limited"), details)
     EXCEPT !.class = "RateLimitError", !.retryAfter = retryAfter]

AuthErrorDefaultStatus(message, status, details) ==
  [OpenCloudError(message, Some(401), Some("unauthorized"), details)
     EXCEPT !.class = "AuthError"]

AuthError(message, status, details) ==
  [OpenCloudError(message, Some(status), Some("unauthorized"), details)
     EXCEPT !.class = "AuthError"]

\* an error that is not of the SDK's classes (JSON.parse's SyntaxError, the
\* transport's TypeError)
ForeignError(class) ==
  [class |-> class, message |-> class, status |-> Undefined,
   code |-> Undefined, details |-> Undefined, retryAfter |-> Undefined]

ExhaustedMessage == "Exhausted retries without a successful response"

-----------------------------------------------------------------------------
(* http.ts *)

parseErrorDetails(response) ==
  IF JSONparse(response.body).ok
    THEN Some(JSONparse(response.body).value)
    ELSE Undefined

\* the values of Math.random(): the rationals num / den in [0, 1)
Randoms(den) == [num : 0..(den - 1), den : {den}]

nextBackoffWide(attempt, retry, rnd) ==
  LET base == Coalesce(retry.baseMs, 250)
      expo == base * Pow2(attempt)
  IN IF retry.backoff = "fixed" THEN base
     ELSE MathRound(expo * (rnd.den + 2 * rnd.num), 2 * rnd.den)

\* rnd is the value of Math.random(); 0.75 + rnd * 0.5 is
\* (3 * den + 2 * num) / (4 * den)
nextBackoff(attempt, retry, rnd) ==
  LET base == Coalesce(retry.baseMs, 250)
      expo == base * Pow2(attempt)
  IN IF retry.backoff = "fixed" THEN base
     ELSE MathRound(expo * (3 * rnd.den + 2 * rnd.num), 4 * rnd.den)

DefaultRetry == [attempts |-> 4, backoff |-> "exponential", baseMs |-> Some(250)]

IsAuthFailureOnly401(status) == status = 401

\* line 116
IsAuthFailure(status) == status = 401 \/ status = 403

\* line 131
IsRetryable(status) == status = 429 \/ status >= 500

RetriesRemainInclusive(attempt, retry) == attempt <= retry.attempts

RetriesRemainNever(attempt, retry) == FALSE

\* line 132
RetriesRemain(attempt, retry) == attempt < retry.attempts

LoopConditionStrict(attempt, retry) == attempt < retry.attempts

\* line 113, the loop condition
LoopCondition(attempt, retry) == attempt <= retry.attempts

NextAttemptStuck(attempt) == attempt

\* line 113, attempt++
NextAttempt(attempt) == attempt + 1

RetryAfterZeroFalsy(reset) ==
  IF HeaderTruthy(reset) /\ parseFloat(reset.val) # 0
    THEN Some(parseFloat(reset.val))
    ELSE Undefined

\* line 146
RetryAfter(reset) ==
  IF HeaderTruthy(reset) THEN Some(parseFloat(reset.val)) ELSE Undefined

WaitForBackoffOnly(reset, attempt, retry, rnd) == nextBackoff(attempt, retry, rnd)

\* lines 134-136
WaitFor(reset, attempt, retry, rnd) ==
  IF HeaderTruthy(reset) THEN parseFloat(reset.val) * 1000
  ELSE nextBackoff(attempt, retry, rnd)

Settle(r, pc, payload, error) ==
  [r EXCEPT !.pc = pc, !.payload = payload, !.error = error]

Throw(r, error) == Settle(r, "thrown", Undefined, Some(error))

Return(r, payload) == Settle(r, "returned", payload, Undefined)

DecodeSuccessUnguarded(r, response) ==
  IF response.status = 204 THEN Return(r, Undefined)
  ELSE IF JSONparse(response.body).ok
    THEN Return(r, Some(JSONparse(response.body).value))
  ELSE Throw(r, ForeignError("SyntaxError"))

DecodeSuccessParseNoContent(r, response) ==
  IF response.body = "" THEN Return(r, Undefined)
  ELSE IF JSONparse(response.body).ok
    THEN Return(r, Some(JSONparse(response.body).value))
  ELSE Throw(r, ForeignError("SyntaxError"))

\* lines 125-129
DecodeSuccess(r, response) ==
  IF response.status = 204 THEN Return(r, Undefined)
  ELSE IF response.body = "" THEN Return(r, Undefined)
  ELSE IF JSONparse(response.body).ok
    THEN Return(r, Some(JSONparse(response.body).value))
  ELSE Throw(r, ForeignError("SyntaxError"))

GenericFailureUncaught(r, response) ==
  IF JSONparse(response.body).ok
    THEN LET details == Some(JSONparse(response.body).value)
         IN Throw(r, OpenCloudError("HTTP " \o ToString(response.status),
                                    Some(response.status), CodeOf(details), details))
    ELSE Throw(r, ForeignError("SyntaxError"))

\* lines 152-158
GenericFailure(r, response) ==
  LET details == parseErrorDetails(response)
  IN Throw(r, OpenCloudError("HTTP " \o ToString(response.status), Some(response.status), CodeOf(details), details))

\* lines 113 and 161: enter the next iteration or leave the loop
EnterLoop(r) ==
  IF LoopCondition(r.attempt, r.retry) THEN [r EXCEPT !.pc = "fetch"]
  ELSE Throw(r, OpenCloudError(ExhaustedMessage, Undefined, Undefined, Undefined))

\* sleep(wait) without await: the loop goes on while the timer is pending
HandleResponseNoAwait(r, response, rnd) ==
  IF IsAuthFailure(response.status)
    THEN Throw(r, AuthError("Unauthorized: invalid or missing Open Cloud credentials",
                            response.status, parseErrorDetails(response)))
  ELSE IF ResponseOk(response.status)
    THEN DecodeSuccess(r, response)
  ELSE IF IsRetryable(response.status) /\ RetriesRemain(r.attempt, r.retry)
    THEN EnterLoop([r EXCEPT !.attempt = NextAttempt(@),
                             !.sleeps = @ + 1,
                             !.wait = Some(WaitFor(response.reset, r.attempt, r.retry, rnd))])
  ELSE IF IsRetryable(response.status) /\ response.status = 429
    THEN Throw(r, RateLimitError("Rate limit exceeded", RetryAfter(response.reset),
                                 parseErrorDetails(response)))
  ELSE GenericFailure(r, response)

\* the reset header honoured only after a 429
HandleResponseResetOnly429(r, response, rnd) ==
  IF IsAuthFailure(response.status)
    THEN Throw(r, AuthError("Unauthorized: invalid or missing Open Cloud credentials",
                            response.status, parseErrorDetails(response)))
  ELSE IF ResponseOk(response.status)
    THEN DecodeSuccess(r, response)
  ELSE IF IsRetryable(response.status) /\ RetriesRemain(r.attempt, r.retry)
    THEN [r EXCEPT !.pc = "sleep",
                   !.sleeps = @ + 1,
                   !.wait = Some(IF response.status = 429
                                   THEN WaitFor(response.reset, r.attempt, r.retry, rnd)
                                   ELSE nextBackoff(r.attempt, r.retry, rnd))]
  ELSE IF IsRetryable(response.status) /\ response.status = 429
    THEN Throw(r, RateLimitError("Rate limit exceeded", RetryAfter(response.reset),
                                 parseErrorDetails(response)))
  ELSE GenericFailure(r, response)

\* lines 116-158: one iteration of the loop after the response has arrived
HandleResponse(r, response, rnd) ==
  IF IsAuthFailure(response.status)
    THEN Throw(r, AuthError("Unauthorized: invalid or missing Open Cloud credentials",
                            response.status, parseErrorDetails(response)))
  ELSE IF ResponseOk(response.status)
    THEN DecodeSuccess(r, response)
  ELSE IF IsRetryable(response.status) /\ RetriesRemain(r.attempt, r.retry)
    THEN [r EXCEPT !.pc = "sleep",
                   !.sleeps = @ + 1,
                   !.wait = Some(WaitFor(response.reset, r.attempt, r.retry, rnd))]
  ELSE IF IsRetryable(response.status) /\ response.status = 429
    THEN Throw(r, RateLimitError("Rate limit exceeded", RetryAfter(response.reset),
                                 parseErrorDetails(response)))
  ELSE GenericFailure(r, response)

\* lines 95-113: the synchronous prefix of request
StartRequest(c, path, init) ==
  EnterLoop([client |-> c,
             retry |-> Coalesce(options.retry, DefaultRetry),
             init |-> init,
             url |-> [href |-> options.baseUrl \o path,
                      search |-> IF IsDefined(init.searchParams)
                                   THEN URLSearchParamsToString(Get(init.searchParams))
                                   ELSE ""],
             headers |-> Spread(Spread("content-type" :> "application/json",
                                       options.headers), init.headers),
             pc |-> "fetch", attempt |-> 0,
             calls |-> <<>>, hist |-> <<>>,
             response |-> Undefined, wait |-> Undefined, sleeps |-> 0,
             payload |-> Undefined, error |-> Undefined])

Settled(r) == r.pc \in {"returned", "thrown"}

\* what resource methods pass as init
Inits == {[method |-> Some("GET"), headers |-> EmptyObject,
           searchParams |-> Undefined, body |-> Undefined],
          [method |-> Some("PATCH"), headers |-> ("content-type" :> "text/plain"),
           searchParams |-> Undefined, body |-> Undefined]}

UniversePath == "/cloud/v2/universes/1"

\* request called while no earlier call of this caller is pending; the
\* resource method that calls it says what becomes of `called`
request(c, path, init) ==
  /\ \A i \in DOMAIN inv : Settled(inv[i])
  /\ inv' = <<StartRequest(c, path, init)>>
  /\ UNCHANGED <<options, authOverride, backoff>>

\* the query rebuilt for every attempt, with the attempt index in it
fetchCallCacheBusting(i) ==
  /\ inv[i].pc = "fetch"
  /\ inv' = [inv EXCEPT ![i].pc = "awaiting",
                        ![i].response = Undefined,
                        ![i].calls = Append(@, [url |-> [inv[i].url EXCEPT !.search =
                                                          @ \o "&attempt=" \o ToString(inv[i].attempt)],
                                                method |-> inv[i].init.method,
                                                headers |-> inv[i].headers,
                                                body |-> inv[i].init.body])]
  /\ UNCHANGED <<options, authOverride, backoff, called>>

\* request called while earlier calls on the same HttpClient are pending
requestConcurrently(c, path, init) ==
  /\ Len(inv) < MaxConcurrent
  /\ inv' = Append(inv, StartRequest(c, path, init))
  /\ UNCHANGED <<options, authOverride, backoff>>

\* line 114: the transport is called
fetchCall(i) ==
  /\ inv[i].pc = "fetch"
  /\ inv' = [inv EXCEPT ![i].pc = "awaiting",
                        ![i].response = Undefined,
                        ![i].calls = Append(@, [url |-> inv[i].url,
                                                method |-> inv[i].init.method,
                                                headers |-> inv[i].headers,
                                                body |-> inv[i].init.body])]
  /\ UNCHANGED <<options, authOverride, backoff, called>>

\* lines 114-158: the transport's promise resolves with a response
fetchResolve(i, response, rnd) ==
  /\ inv[i].pc = "awaiting"
  /\ inv' = [inv EXCEPT ![i] =
       HandleResponse([inv[i] EXCEPT !.hist = Append(@, response.status),
                                     !.response = Some(response)],
                      response, rnd)]
  /\ UNCHANGED <<options, authOverride, backoff, called>>

\* the rejection caught and treated as a retryable failure
fetchRejectRetried(i) ==
  /\ inv[i].pc = "awaiting"
  /\ inv' = [inv EXCEPT ![i] =
       IF RetriesRemain(inv[i].attempt, inv[i].retry)
         THEN [inv[i] EXCEPT !.pc = "sleep", !.sleeps = @ + 1,
                             !.wait = Some(Coalesce(inv[i].retry.baseMs, 250))]
         ELSE Throw(inv[i], OpenCloudError("Network error", Undefined, Undefined, Undefined))]
  /\ UNCHANGED <<options, authOverride, backoff, called>>

\* line 114: the transport's promise rejects
fetchReject(i) ==
  /\ inv[i].pc = "awaiting"
  /\ inv' = [inv EXCEPT ![i] = Throw(inv[i], ForeignError("TypeError"))]
  /\ UNCHANGED <<options, authOverride, backoff, called>>

\* the attempt counter kept on the HttpClient instead of in the call
sleepResolveSharedAttempt(i) ==
  /\ inv[i].pc = "sleep"
  /\ inv' = [j \in DOMAIN inv |->
       IF j = i THEN EnterLoop([inv[i] EXCEPT !.attempt = NextAttempt(@), !.wait = Undefined])
       ELSE [inv[j] EXCEPT !.attempt = NextAttempt(@)]]
  /\ UNCHANGED <<options, authOverride, backoff, called>>

\* a sleep whose promise is never resolved
sleepResolveNever(i) ==
  /\ inv[i].pc = "sleep"
  /\ FALSE
  /\ UNCHANGED vars

\* lines 137-138 and 113: the timer fires, continue
sleepResolve(i) ==
  /\ inv[i].pc = "sleep"
  /\ inv' = [inv EXCEPT ![i] =
       EnterLoop([inv[i] EXCEPT !.attempt = NextAttempt(@), !.wait = Undefined])]
  /\ UNCHANGED <<options, authOverride, backoff, called>>

-----------------------------------------------------------------------------
(* index.ts *)

Policies == [attempts : 0..MaxAttempts, backoff : {"fixed", "exponential"},
             baseMs : {Undefined, Some(0), Some(100)}]

ConfigRetries == {Undefined} \cup {Some(p) : p \in Policies}

ConfigApiKeys == {Undefined, Some("default-key")}

AuthConfigs == {[kind |-> "apiKey", secret |-> "scoped-key"],
                [kind |-> "oauth2", secret |-> "token-1"],
                [kind |-> "oauth2", secret |-> "token-2"]}

\* OpenCloud constructor, lines 59-75
Constructor(config) ==
  /\ options = [baseUrl |-> "https://apis.roblox.com",
                retry |-> Some(Coalesce(config.retry, DefaultRetry)),
                headers |-> Spread(IF IsDefined(config.apiKey) /\ Get(config.apiKey) # ""
                                     THEN "x-api-key" :> Get(config.apiKey)
                                     ELSE EmptyObject,
                                   "user-agent" :> "@relatiohq/opencloud")]
  /\ authOverride = <<Undefined>>
  /\ inv = <<>>

withAuthShared(p, auth) ==
  /\ p \in DOMAIN authOverride
  /\ Len(authOverride) < 1 + MaxScoped
  /\ authOverride' = Append(authOverride, Some(auth))
  /\ options' = [options EXCEPT !.headers =
                   Spread(@, IF auth.kind = "apiKey" THEN "x-api-key" :> auth.secret
                             ELSE "authorization" :> ("Bearer " \o auth.secret))]
  /\ UNCHANGED <<inv, backoff, called>>

\* OpenCloud.withAuth, lines 113-123: the scoped HttpClient delegates to the
\* HttpClient of client p and owns only its authOverride
withAuth(p, auth) ==
  /\ p \in DOMAIN authOverride
  /\ Len(authOverride) < 1 + MaxScoped
  /\ authOverride' = Append(authOverride, Some(auth))
  /\ UNCHANGED <<options, inv, backoff, called>>

-----------------------------------------------------------------------------
(* resources: groups.ts, universes.ts *)

\* request(path) without init: init = {}
EmptyInit == [method |-> Undefined, headers |-> EmptyObject,
              searchParams |-> Undefined, body |-> Undefined]

ListOptions == [maxPageSize : {Undefined, Some(0), Some(10)},
                pageToken : {Undefined, Some("page-2")}]

MembershipOptions == [maxPageSize : {Undefined, Some(0), Some(10)},
                      pageToken : {Undefined, Some("page-2")},
                      filter : {Undefined, Some("role-1")}]

\* Groups.listGroupMemberships
listGroupMemberships(c, groupId, o) ==
  LET sp1 == IF TruthyNumber(o.maxPageSize)
               THEN URLSearchParamsSet(URLSearchParams, "maxPageSize",
                                       ToString(Get(o.maxPageSize)))
               ELSE URLSearchParams
      sp2 == IF TruthyString(o.pageToken)
               THEN URLSearchParamsSet(sp1, "pageToken", Get(o.pageToken))
               ELSE sp1
      sp3 == IF TruthyString(o.filter)
               THEN URLSearchParamsSet(sp2, "filter", Get(o.filter))
               ELSE sp2
  IN /\ request(c, "/cloud/v2/groups/" \o groupId \o "/memberships",
                [method |-> Some("GET"), headers |-> EmptyObject,
                 searchParams |-> Some(sp3), body |-> Undefined])
     /\ called' = [method |-> "listGroupMemberships", options |-> o]

\* Groups.listGroupRoles: searchParams is built and not passed to request
listGroupRoles(c, groupId, o) ==
  LET sp1 == IF TruthyNumber(o.maxPageSize)
               THEN URLSearchParamsSet(URLSearchParams, "maxPageSize",
                                       ToString(Get(o.maxPageSize)))
               ELSE URLSearchParams
      sp2 == IF TruthyString(o.pageToken)
               THEN URLSearchParamsSet(sp1, "pageToken", Get(o.pageToken))
               ELSE sp1
  IN /\ request(c, "/cloud/v2/groups/" \o groupId \o "/roles", EmptyInit)
     /\ called' = [method |-> "listGroupRoles", options |-> o]

\* the values of generateIdempotencyKey()
IdempotencyKeys == {"1767225600000-0a1b-2c3d-4e5f-6a7b", "1767225600000-89ab-cdef-0123-4567"}

\* JSON.stringify({ gameJoinRestriction: body })
RestrictionBody == "{\"gameJoinRestriction\":{\"active\":true}}"

UpdateUserRestrictionOptions == [universeId : {"1234"}, placeId : {Undefined, Some("5678")}]

\* Universes.updateUserRestriction: idempotencyKey and firstSent are what
\* generateIdempotencyKey() and new Date().toISOString() return in this call
updateUserRestriction(c, userRestrictionId, o, idempotencyKey, firstSent) ==
  LET sp1 == URLSearchParamsSet(URLSearchParams, "updateMask", "game_join_restriction")
      sp2 == URLSearchParamsSet(sp1, "idempotencyKey.key", idempotencyKey)
      sp3 == URLSearchParamsSet(sp2, "idempotencyKey.firstSent", firstSent)
      universe == "/cloud/v2/universes/" \o o.universeId
      place == IF TruthyString(o.placeId) THEN universe \o "/places/" \o Get(o.placeId)
               ELSE universe
      resourcePath == place \o "/user-restrictions/" \o userRestrictionId
  IN /\ request(c, resourcePath,
                [method |-> Some("PATCH"), headers |-> EmptyObject,
                 searchParams |-> Some(sp3), body |-> Some(RestrictionBody)])
     /\ called' = [method |-> "updateUserRestriction", options |-> o,
                   idempotencyKey |-> idempotencyKey, firstSent |-> firstSent]

-----------------------------------------------------------------------------
(* Specifications *)

NoBackoff == [retry |-> DefaultRetry, attempt |-> 0, prev |-> Undefined, cur |-> Undefined]

\* no resource method has been called
NoCall == [method |-> "", options |-> EmptyObject]

Init ==
  /\ \E config \in [apiKey : ConfigApiKeys, retry : ConfigRetries] : Constructor(config)
  /\ backoff = NoBackoff
  /\ called = NoCall

\* one caller that awaits each request, every transport response possible
Next ==
  \/ \E init \in Inits : request(1, UniversePath, init) /\ UNCHANGED called
  \/ \E i \in DOMAIN inv : fetchCall(i)
  \/ \E i \in DOMAIN inv, response \in Responses, rnd \in Randoms(RandDen) :
       fetchResolve(i, response, rnd)
  \/ \E i \in DOMAIN inv : fetchReject(i)
  \/ \E i \in DOMAIN inv : sleepResolve(i)

Spec == Init /\ [][Next]_vars

\* a step of a pending request: the transport is called, its promise settles
\* or the timer of a wait fires
Progress ==
  \/ \E i \in DOMAIN inv : fetchCall(i)
  \/ \E i \in DOMAIN inv, response \in Responses, rnd \in Randoms(RandDen) :
       fetchResolve(i, response, rnd)
  \/ \E i \in DOMAIN inv : fetchReject(i)
  \/ \E i \in DOMAIN inv : sleepResolve(i)

\* every transport call and every wait completes
SpecLive == Init /\ [][Next]_vars /\ WF_vars(Progress)

\* the transport's responses when the credentials are what is looked at
AuthResponses == {[status |-> 200, reset |-> [has |-> FALSE, val |-> <<>>], body |-> BodyOk],
                  [status |-> 401, reset |-> [has |-> FALSE, val |-> <<>>], body |-> BodyEmpty],
                  [status |-> 500, reset |-> [has |-> FALSE, val |-> <<>>], body |-> BodyEmpty]}

\* base and scoped clients, one caller that awaits each request
NextAuth ==
  \/ \E p \in DOMAIN authOverride, auth \in AuthConfigs : withAuth(p, auth)
  \/ \E c \in DOMAIN authOverride, init \in Inits :
       request(c, UniversePath, init) /\ UNCHANGED called
  \/ \E i \in DOMAIN inv : fetchCall(i)
  \/ \E i \in DOMAIN inv, response \in AuthResponses, rnd \in Randoms(RandDen) :
       fetchResolve(i, response, rnd)
  \/ \E i \in DOMAIN inv : fetchReject(i)
  \/ \E i \in DOMAIN inv : sleepResolve(i)

SpecAuth == Init /\ [][NextAuth]_vars

\* the transport's responses when the requests of resource methods are what
\* is looked at
ResourceResponses == {[status |-> 200, reset |-> [has |-> FALSE, val |-> <<>>], body |-> BodyOk],
                      [status |-> 404, reset |-> [has |-> FALSE, val |-> <<>>], body |-> BodyNotFound],
                      [status |-> 503, reset |-> [has |-> FALSE, val |-> <<>>], body |-> BodyEmpty]}

\* resource methods called on the base client, one caller that awaits each
NextResources ==
  \/ \E o \in ListOptions : listGroupRoles(1, "123", o)
  \/ \E o \in MembershipOptions : listGroupMemberships(1, "123", o)
  \/ \E o \in UpdateUserRestrictionOptions, key \in IdempotencyKeys, firstSent \in Instants :
       updateUserRestriction(1, "42", o, key, firstSent)
  \/ \E i \in DOMAIN inv : fetchCall(i)
  \/ \E i \in DOMAIN inv, response \in ResourceResponses, rnd \in Randoms(RandDen) :
       fetchResolve(i, response, rnd)
  \/ \E i \in DOMAIN inv : fetchReject(i)
  \/ \E i \in DOMAIN inv : sleepResolve(i)

SpecResources == Init /\ [][NextResources]_vars

\* the policies and responses when the interleavings are what is looked at
ConcurrentPolicies == {[attempts |-> 2, backoff |-> "fixed", baseMs |-> Some(100)],
                       [attempts |-> 1, backoff |-> "exponential", baseMs |-> Undefined]}

InitConcurrent ==
  /\ \E p \in ConcurrentPolicies :
       Constructor([apiKey |-> Some("default-key"), retry |-> Some(p)])
  /\ backoff = NoBackoff
  /\ called = NoCall

\* several callers of one HttpClient, none awaiting the others
NextConcurrent ==
  \/ requestConcurrently(1, UniversePath, EmptyInit) /\ UNCHANGED called
  \/ \E i \in DOMAIN inv : fetchCall(i)
  \/ \E i \in DOMAIN inv, response \in ResourceResponses, rnd \in Randoms(RandDen) :
       fetchResolve(i, response, rnd)
  \/ \E i \in DOMAIN inv : fetchReject(i)
  \/ \E i \in DOMAIN inv : sleepResolve(i)

SpecConcurrent == InitConcurrent /\ [][NextConcurrent]_vars

\* the policies nextBackoff is applied to
BackoffPolicies == [attempts : {4}, backoff : {"fixed", "exponential"},
                    baseMs : {Undefined, Some(250)} \cup {Some(b) : b \in 0..MaxBaseMs}]

\* line 136: nextBackoff is applied to the attempt indices 0, 1, ... of one
\* policy; the last two delays are kept
computeBackoff(rnd) ==
  /\ backoff.attempt <= MaxIndex
  /\ backoff' = [backoff EXCEPT !.attempt = @ + 1,
                                !.prev = backoff.cur,
                                !.cur = Some(nextBackoff(backoff.attempt, backoff.retry, rnd))]
  /\ UNCHANGED <<options, authOverride, inv, called>>

InitBackoff ==
  /\ Constructor([apiKey |-> Undefined, retry |-> Undefined])
  /\ \E p \in BackoffPolicies : backoff = [NoBackoff EXCEPT !.retry = p]
  /\ called = NoCall

NextBackoff == \E rnd \in Randoms(FineDen) : computeBackoff(rnd)

\* nextBackoff as a function of attempt index, policy and Math.random()
SpecBackoff == InitBackoff /\ [][NextBackoff]_vars

-----------------------------------------------------------------------------
(* Properties *)

Last(s) == s[Len(s)]

\* every transport call of r was answered with a response
Answered(r) == Len(r.hist) = Len(r.calls)

Thrown(r, class) == r.pc = "thrown" /\ Get(r.error).class = class

StatusRetryable(s) == s = 429 \/ s >= 500

StatusOther(s) == ~(s >= 200 /\ s <= 299) /\ s \notin {401, 403, 429} /\ s < 500

AllBefore(hist, n, P(_)) == \A k \in 1..(n - 1) : P(hist[k])

\* C1: a request invokes the transport at most attempts + 1 times, whatever
\* the responses are.
C1_AtMostAttemptsPlusOneCalls ==
  \A i \in DOMAIN inv : Len(inv[i].calls) <= inv[i].retry.attempts + 1

C1_Witness ==
  \E i \in DOMAIN inv :
    /\ Settled(inv[i])
    /\ inv[i].retry.attempts = 2
    /\ Len(inv[i].calls) = 3

\* C2: when every call is answered with status 500, the request makes exactly
\* attempts + 1 calls and then throws a plain OpenCloudError of status 500,
\* not the "Exhausted retries" fallback.
C2_AlwaysFiveHundred ==
  \A i \in DOMAIN inv :
    LET r == inv[i]
        all500 == r.hist # <<>> /\ Answered(r) /\ \A k \in DOMAIN r.hist : r.hist[k] = 500
    IN /\ (all500 /\ Len(r.hist) = r.retry.attempts + 1) => Settled(r)
       /\ (all500 /\ Settled(r)) =>
            /\ Len(r.calls) = r.retry.attempts + 1
            /\ Thrown(r, "OpenCloudError")
            /\ Get(r.error).status = Some(500)
            /\ Get(r.error).message # ExhaustedMessage

C2_Witness ==
  \E i \in DOMAIN inv :
    /\ inv[i].hist = <<500, 500, 500>>
    /\ inv[i].retry.attempts = 2
    /\ Thrown(inv[i], "OpenCloudError")

\* C3: a response of status 401 or 403 ends the request with an AuthError at
\* once: it is the last response, no call and no wait follows it.
C3_AuthFailureIsImmediate ==
  \A i \in DOMAIN inv :
    LET r == inv[i]
    IN \A k \in DOMAIN r.hist :
         r.hist[k] \in {401, 403} =>
           /\ k = Len(r.hist)
           /\ Len(r.calls) = k
           /\ Thrown(r, "AuthError")
           /\ r.wait = Undefined

C3_Witness ==
  \E i \in DOMAIN inv :
    /\ Len(inv[i].hist) = 2
    /\ Last(inv[i].hist) = 403
    /\ inv[i].attempt < inv[i].retry.attempts
    /\ Thrown(inv[i], "AuthError")

\* the payload a decodable success response stands for
ExpectedPayload(response) ==
  IF response.status = 204 \/ response.body = BodyEmpty THEN Undefined
  ELSE IF response.body = BodyOk THEN Some([ok |-> "true"])
  ELSE Some([message |-> "not found", code |-> "not_found"])

SecondsOf(val) == IF val = <<0>> THEN 0 ELSE 2

\* C5: a RateLimitError carries as retryAfter the number in the final 429
\* response's x-ratelimit-reset header (0 included) and undefined without the
\* header; with attempts = 1 and only 429 answers it is thrown after 2 calls.
C5_RetryAfterFromHeader ==
  \A i \in DOMAIN inv :
    LET r == inv[i]
    IN /\ Thrown(r, "RateLimitError") =>
            /\ Last(r.hist) = 429
            /\ Get(r.response).status = 429
            /\ Get(r.response).reset.has =>
                 Get(r.error).retryAfter = Some(SecondsOf(Get(r.response).reset.val))
            /\ ~Get(r.response).reset.has => Get(r.error).retryAfter = Undefined
       /\ (/\ r.retry.attempts = 1
           /\ Settled(r)
           /\ Answered(r)
           /\ \A k \in DOMAIN r.hist : r.hist[k] = 429) =>
            /\ Thrown(r, "RateLimitError")
            /\ Len(r.calls) = 2

C5_Witness ==
  \E i \in DOMAIN inv :
    /\ inv[i].retry.attempts = 1
    /\ inv[i].hist = <<429, 429>>
    /\ Thrown(inv[i], "RateLimitError")
    /\ Get(inv[i].response).reset = [has |-> TRUE, val |-> <<0>>]
    /\ Get(inv[i].error).retryAfter = Some(0)

\* C6: a settled request has thrown RateLimitError exactly when the transport
\* was called attempts + 1 times, every earlier response was retryable and the
\* last one is a 429; a last response of 5xx gives a plain OpenCloudError.
C6_RateLimitOnlyWhenExhausted ==
  \A i \in DOMAIN inv :
    LET r == inv[i]
        n == Len(r.hist)
    IN Settled(r) =>
         /\ Thrown(r, "RateLimitError") <=>
              /\ n > 0
              /\ Answered(r)
              /\ Len(r.calls) = r.retry.attempts + 1
              /\ AllBefore(r.hist, n, StatusRetryable)
              /\ r.hist[n] = 429
         /\ (n > 0 /\ Answered(r) /\ r.hist[n] >= 500) =>
              /\ Thrown(r, "OpenCloudError")
              /\ Get(r.error).status = Some(r.hist[n])

C6_Witness ==
  \E i \in DOMAIN inv :
    /\ inv[i].retry.attempts = 2
    /\ inv[i].hist = <<500, 429, 429>>
    /\ Thrown(inv[i], "RateLimitError")

\* the code field of a response body
ExpectedCode(body) == IF body = BodyNotFound THEN Some("not_found") ELSE Undefined

\* C7: a response whose status is not 2xx, 401, 403, 429 or >= 500 ends the
\* request at that attempt with a plain OpenCloudError that carries the
\* status and the code field of the body.
C7_OtherStatusIsTerminal ==
  \A i \in DOMAIN inv :
    LET r == inv[i]
    IN \A k \in DOMAIN r.hist :
         StatusOther(r.hist[k]) =>
           /\ k = Len(r.hist)
           /\ Len(r.calls) = k
           /\ r.wait = Undefined
           /\ Thrown(r, "OpenCloudError")
           /\ Get(r.error).status = Some(r.hist[k])
           /\ Get(r.error).code = ExpectedCode(Get(r.response).body)

C7_Witness ==
  \E i \in DOMAIN inv :
    /\ inv[i].hist = <<404>>
    /\ inv[i].retry.attempts > 0
    /\ Get(inv[i].response).body = BodyNotFound
    /\ Thrown(inv[i], "OpenCloudError")
    /\ Get(inv[i].error).status = Some(404)
    /\ Get(inv[i].error).code = Some("not_found")

\* the request of call k of r went out through a scoped client that overrides
\* a default API key with an OAuth2 token
OAuth2OverApiKey(r) ==
  /\ IsDefined(authOverride[r.client])
  /\ Get(authOverride[r.client]).kind = "oauth2"
  /\ "x-api-key" \in DOMAIN options.headers

\* C8: an OAuth2 withAuth override on a client with a default API key sends
\* only the bearer authorization header and no x-api-key header; no request
\* carries both credential headers.
C8_OverrideReplacesCredential ==
  \A i \in DOMAIN inv :
    \A k \in DOMAIN inv[i].calls :
      LET h == inv[i].calls[k].headers
      IN /\ ~("x-api-key" \in DOMAIN h /\ "authorization" \in DOMAIN h)
         /\ OAuth2OverApiKey(inv[i]) =>
              /\ "authorization" \in DOMAIN h
              /\ h["authorization"] = "Bearer " \o Get(authOverride[inv[i].client]).secret
              /\ "x-api-key" \notin DOMAIN h

\* C9: an OAuth2 withAuth override on a client with a default API key sends
\* authorization 'Bearer <token>' and still sends the default x-api-key.
C9_OverrideAddsBearer ==
  \A i \in DOMAIN inv :
    \A k \in DOMAIN inv[i].calls :
      LET h == inv[i].calls[k].headers
      IN OAuth2OverApiKey(inv[i]) =>
           /\ "x-api-key" \in DOMAIN h
           /\ h["x-api-key"] = options.headers["x-api-key"]
           /\ "authorization" \in DOMAIN h
           /\ h["authorization"] = "Bearer " \o Get(authOverride[inv[i].client]).secret

\* C10: a request through a client with neither a default API key nor a
\* withAuth override never reaches a payload: it is rejected with an
\* AuthError "No authentication provided".
C10_NoAuthenticationRejected ==
  \A i \in DOMAIN inv :
    LET r == inv[i]
    IN (~IsDefined(authOverride[r.client]) /\ "x-api-key" \notin DOMAIN options.headers) =>
         /\ r.pc # "returned"
         /\ Settled(r) =>
              /\ Thrown(r, "AuthError")
              /\ Get(r.error).message = "No authentication provided"

\* the credential header a scoped client's AuthConfig stands for
CredentialSent(h, auth) ==
  IF auth.kind = "apiKey"
    THEN /\ "x-api-key" \in DOMAIN h
         /\ h["x-api-key"] = auth.secret
    ELSE /\ "authorization" \in DOMAIN h
         /\ h["authorization"] = "Bearer " \o auth.secret

\* C11: a scoped client made by withAuth on a client without default
\* credential sends exactly the header of its credential kind: x-api-key and
\* no authorization for 'apiKey', the bearer authorization and no x-api-key
\* for 'oauth2'.
C11_ScopedSendsItsCredential ==
  \A i \in DOMAIN inv :
    \A k \in DOMAIN inv[i].calls :
      LET h == inv[i].calls[k].headers
          o == authOverride[inv[i].client]
      IN (IsDefined(o) /\ "x-api-key" \notin DOMAIN options.headers) =>
           /\ CredentialSent(h, Get(o))
           /\ Get(o).kind = "apiKey" => "authorization" \notin DOMAIN h
           /\ Get(o).kind = "oauth2" => "x-api-key" \notin DOMAIN h

\* C12: withAuth leaves the base client as it was: no step changes the shared
\* options (default headers, credential, retry policy) or the credential of
\* an existing client, and the requests of the base client carry the
\* constructor's headers and nothing of a scoped credential.
C12_WithAuthLeavesBaseUnchanged ==
  [][/\ options' = options
     /\ SubSeq(authOverride', 1, Len(authOverride)) = authOverride
     /\ \A i \in DOMAIN inv' :
          inv'[i].client = 1 =>
            /\ "authorization" \notin DOMAIN inv'[i].headers
            /\ "x-api-key" \in DOMAIN inv'[i].headers =>
                 inv'[i].headers["x-api-key"] = "default-key"
            /\ inv'[i].retry = Get(options.retry)]_vars

C12_Witness ==
  /\ Len(authOverride) = 3
  /\ \E i \in DOMAIN inv :
       /\ inv[i].client = 1
       /\ Len(inv[i].calls) > 0
       /\ "x-api-key" \in DOMAIN inv[i].calls[1].headers

\* C13: every outbound request carries the credential of the client it was
\* issued through, for any number of scoped clients of one base client.
C13_EachRequestCarriesItsClientsCredential ==
  \A i \in DOMAIN inv :
    \A k \in DOMAIN inv[i].calls :
      LET h == inv[i].calls[k].headers
          o == authOverride[inv[i].client]
      IN /\ IsDefined(o) => CredentialSent(h, Get(o))
         /\ (~IsDefined(o) /\ "x-api-key" \in DOMAIN options.headers) =>
              /\ "x-api-key" \in DOMAIN h
              /\ h["x-api-key"] = options.headers["x-api-key"]

\* C14: a retried 429 that carries x-ratelimit-reset: s is followed by a wait
\* of s * 1000 ms, whatever the backoff policy computes.
C14_ResetHeaderSetsWait ==
  \A i \in DOMAIN inv :
    LET r == inv[i]
    IN (r.pc = "sleep" /\ Last(r.hist) = 429 /\ Get(r.response).reset.has) =>
         r.wait = Some(SecondsOf(Get(r.response).reset.val) * 1000)

C14_Witness ==
  \E i \in DOMAIN inv :
    /\ inv[i].pc = "sleep"
    /\ Last(inv[i].hist) = 429
    /\ inv[i].retry = DefaultRetry
    /\ Get(inv[i].response).reset = [has |-> TRUE, val |-> <<0>>]
    /\ inv[i].wait = Some(0)

\* the delay just computed is for an exponential policy of base 250 ms
Exponential250 ==
  /\ backoff.retry.backoff = "exponential"
  /\ backoff.retry.baseMs \in {Undefined, Some(250)}
  /\ IsDefined(backoff.cur)

RECURSIVE TwoTo(_)
TwoTo(n) == IF n = 0 THEN 1 ELSE 2 * TwoTo(n - 1)

\* C15: with baseMs = 250 and exponential backoff the delay for attempt index
\* i lies in [250 * 2^i * 0.75, 250 * 2^i * 1.25].
C15_Delay250InBand ==
  Exponential250 =>
    LET expo == 250 * TwoTo(backoff.attempt - 1)
    IN /\ 4 * Get(backoff.cur) >= 3 * expo
       /\ 4 * Get(backoff.cur) <= 5 * expo

C15_Witness ==
  /\ Exponential250
  /\ backoff.attempt = 4
  /\ backoff.cur = Some(1500)

\* the unjittered value baseMs * 2^i of the delay just computed
Unjittered == Coalesce(backoff.retry.baseMs, 250) * TwoTo(backoff.attempt - 1)

ExponentialComputed ==
  /\ backoff.retry.backoff = "exponential"
  /\ IsDefined(backoff.cur)

\* C16 as stated: for every baseMs >= 0 and attempt index i the rounded delay
\* lies in [0.75 * baseMs * 2^i, 1.25 * baseMs * 2^i].
C16_RoundedDelayInBand ==
  ExponentialComputed =>
    /\ 4 * Get(backoff.cur) >= 3 * Unjittered
    /\ 4 * Get(backoff.cur) <= 5 * Unjittered

\* C16 amended: the rounded delay lies within half a millisecond of the band,
\* in [0.75 * baseMs * 2^i - 0.5, 1.25 * baseMs * 2^i + 0.5].
C16_RoundedDelayNearBand ==
  ExponentialComputed =>
    /\ 4 * Get(backoff.cur) >= 3 * Unjittered - 2
    /\ 4 * Get(backoff.cur) <= 5 * Unjittered + 2

C16_Witness ==
  /\ ExponentialComputed
  /\ backoff.retry.baseMs = Some(3)
  /\ backoff.attempt = 1
  /\ backoff.cur = Some(2)

\* C17: with the default retry configuration and no reset header the waits
\* before retries 1..4 are about 1 s, 2 s, 4 s and 8 s (within the jitter of
\* a quarter).
C17_DefaultWaitsFromOneSecond ==
  \A i \in DOMAIN inv :
    LET r == inv[i]
    IN (/\ r.pc = "sleep"
        /\ r.retry = DefaultRetry
        /\ ~Get(r.response).reset.has) =>
         /\ 4 * Get(r.wait) >= 3 * 1000 * TwoTo(r.attempt)
         /\ 4 * Get(r.wait) <= 5 * 1000 * TwoTo(r.attempt)

\* C18: with exponential backoff of base 250 ms the delay for attempt index
\* i + 1 is longer than the delay for index i, whatever the two jitters are.
C18_DelaysIncrease ==
  (Exponential250 /\ IsDefined(backoff.prev)) => Get(backoff.cur) > Get(backoff.prev)

C18_Witness ==
  /\ Exponential250
  /\ IsDefined(backoff.prev)
  /\ 10 * Get(backoff.prev) > 12 * 250 * TwoTo(backoff.attempt - 2)
  /\ 10 * Get(backoff.cur) < 8 * 250 * TwoTo(backoff.attempt - 1)

\* C19 as stated: every outcome of a request whose calls were all answered
\* is a payload or an error of the three SDK classes.
C19_OutcomeIsPayloadOrTypedError ==
  \A i \in DOMAIN inv :
    LET r == inv[i]
    IN (Settled(r) /\ Answered(r)) =>
         \/ r.pc = "returned"
         \/ Get(r.error).class \in {"OpenCloudError", "RateLimitError", "AuthError"}

\* the last response is a success other than 204 whose body is not empty and
\* not JSON
MalformedSuccess(r) ==
  /\ Get(r.response).status >= 200 /\ Get(r.response).status <= 299
  /\ Get(r.response).status # 204
  /\ Get(r.response).body \notin {BodyEmpty, BodyOk, BodyNotFound}

\* C19 amended: the same, except for a 2xx response other than 204 whose
\* non-empty body is not JSON.
C19_TypedUnlessMalformedSuccess ==
  \A i \in DOMAIN inv :
    LET r == inv[i]
    IN (Settled(r) /\ Answered(r) /\ ~MalformedSuccess(r)) =>
         \/ r.pc = "returned"
         \/ Get(r.error).class \in {"OpenCloudError", "RateLimitError", "AuthError"}

C19_Witness ==
  \E i \in DOMAIN inv :
    /\ Settled(inv[i])
    /\ Last(inv[i].hist) = 200
    /\ Get(inv[i].response).body = BodyEmpty
    /\ inv[i].pc = "returned"

\* C20: the attempts of a request are sequential: a call is in flight only
\* after every earlier response has arrived and its wait is over, one wait
\* separates consecutive calls and none follows the final response.
C20_AttemptsAreSequential ==
  \A i \in DOMAIN inv :
    LET r == inv[i]
        n == Len(r.calls)
        a == Len(r.hist)
    IN /\ r.pc = "fetch" => (a = n /\ r.sleeps = n /\ r.wait = Undefined)
       /\ r.pc = "awaiting" => (a = n - 1 /\ r.sleeps = n - 1 /\ r.wait = Undefined)
       /\ r.pc = "sleep" => (a = n /\ r.sleeps = n /\ IsDefined(r.wait))
       /\ Settled(r) => (n >= 1 /\ a \in {n - 1, n} /\ r.sleeps = n - 1 /\ r.wait = Undefined)

C20_Witness ==
  \E i \in DOMAIN inv :
    /\ Settled(inv[i])
    /\ Len(inv[i].calls) = 3
    /\ Len(inv[i].hist) = 3
    /\ inv[i].sleeps = 2

\* C22: a failure raised by the transport itself propagates to the caller as
\* it is: the request settles with the transport's error, no wait and no
\* further call follow, also when retries remain.
C22_TransportFailurePropagates ==
  \A i \in DOMAIN inv :
    LET r == inv[i]
    IN (Len(r.hist) < Len(r.calls) /\ r.pc # "awaiting") =>
         /\ r.pc = "thrown"
         /\ r.error = Some(ForeignError("TypeError"))
         /\ Len(r.calls) = Len(r.hist) + 1
         /\ r.sleeps = Len(r.hist)
         /\ r.wait = Undefined

C22_Witness ==
  \E i \in DOMAIN inv :
    /\ Thrown(inv[i], "TypeError")
    /\ Len(inv[i].calls) = 2
    /\ Len(inv[i].hist) = 1
    /\ inv[i].attempt < inv[i].retry.attempts

\* the kind of error raised for a failing status
ExpectedClass(status) ==
  IF status \in {401, 403} THEN "AuthError"
  ELSE IF status = 429 THEN "RateLimitError"
  ELSE "OpenCloudError"

\* C23: when the body of a failing response is not JSON the error raised has
\* the kind and the status that belong to the response's status, its details
\* (and the generic error's code) are undefined, and no parse error leaves
\* request.
C23_UnparseableErrorBody ==
  \A i \in DOMAIN inv :
    LET r == inv[i]
    IN (/\ Settled(r)
        /\ Answered(r)
        /\ ~ResponseOk(Last(r.hist))
        /\ ~JSONparse(Get(r.response).body).ok) =>
         /\ r.pc = "thrown"
         /\ Get(r.error).class = ExpectedClass(Last(r.hist))
         /\ Get(r.error).status = Some(Last(r.hist))
         /\ Get(r.error).details = Undefined
         /\ Get(r.error).class = "OpenCloudError" => Get(r.error).code = Undefined

C23_Witness ==
  \E i \in DOMAIN inv :
    /\ Thrown(inv[i], "OpenCloudError")
    /\ Answered(inv[i])
    /\ Last(inv[i].hist) = 404
    /\ Get(inv[i].response).body = BodyMalformed
    /\ Get(inv[i].error).details = Undefined

\* a 2xx response that is neither 204 nor empty
OtherSuccess(r) ==
  /\ Settled(r)
  /\ Answered(r)
  /\ ResponseOk(Last(r.hist))
  /\ Last(r.hist) # 204
  /\ Get(r.response).body # ""

\* a 2xx response that is 204 or has an empty body yields undefined
NoContentIsUndefined(r) ==
  (/\ Settled(r)
   /\ Answered(r)
   /\ ResponseOk(Last(r.hist))
   /\ (Last(r.hist) = 204 \/ Get(r.response).body = "")) =>
     (r.pc = "returned" /\ r.payload = Undefined)

\* C24 as stated: a 2xx response yields undefined when its status is 204 or
\* its body is empty, and any other 2xx response yields the parsed JSON body.
C24_SuccessPayload ==
  \A i \in DOMAIN inv :
    LET r == inv[i]
    IN /\ NoContentIsUndefined(r)
       /\ OtherSuccess(r) =>
            /\ r.pc = "returned"
            /\ JSONparse(Get(r.response).body).ok
            /\ r.payload = Some(JSONparse(Get(r.response).body).value)

\* C24 amended: a 2xx response yields undefined when its status is 204 or its
\* body is empty; any other 2xx response yields the parsed JSON body when the
\* body is JSON and raises the SyntaxError of JSON.parse when it is not.
C24_SuccessPayloadOrSyntaxError ==
  \A i \in DOMAIN inv :
    LET r == inv[i]
    IN /\ NoContentIsUndefined(r)
       /\ OtherSuccess(r) =>
            IF JSONparse(Get(r.response).body).ok
              THEN /\ r.pc = "returned"
                   /\ r.payload = Some(JSONparse(Get(r.response).body).value)
              ELSE r.error = Some(ForeignError("SyntaxError"))

C24_Witness ==
  \E i \in DOMAIN inv :
    /\ inv[i].pc = "returned"
    /\ Last(inv[i].hist) = 204
    /\ Get(inv[i].response).body = BodyOk
    /\ inv[i].payload = Undefined

\* C25: a RateLimitError raised by request has status 429 and code
\* 'rate_limited'; an AuthError raised by request has code 'unauthorized' and
\* the status of the response that caused it, 401 or 403.
C25_TypedErrorFields ==
  \A i \in DOMAIN inv :
    LET r == inv[i]
    IN /\ Thrown(r, "RateLimitError") =>
            /\ Get(r.error).status = Some(429)
            /\ Get(r.error).code = Some("rate_limited")
       /\ Thrown(r, "AuthError") =>
            /\ Get(r.error).code = Some("unauthorized")
            /\ Last(r.hist) \in {401, 403}
            /\ Get(r.error).status = Some(Last(r.hist))

C25_Witness ==
  \E i \in DOMAIN inv :
    /\ Thrown(inv[i], "AuthError")
    /\ Last(inv[i].hist) = 403
    /\ Get(inv[i].error).status = Some(403)

\* C27: the fallback error 'Exhausted retries without a successful response'
\* is never raised, for every policy with attempts >= 0 and every sequence of
\* responses.
C27_ExhaustedFallbackUnreachable ==
  \A i \in DOMAIN inv :
    inv[i].pc = "thrown" => Get(inv[i].error).message # ExhaustedMessage

C27_Witness ==
  \E i \in DOMAIN inv :
    /\ inv[i].pc = "thrown"
    /\ Answered(inv[i])
    /\ inv[i].retry.attempts >= 1
    /\ Len(inv[i].calls) = inv[i].retry.attempts + 1
    /\ StatusRetryable(Last(inv[i].hist))
    /\ Get(inv[i].error).message # ExhaustedMessage

\* C30: a retried response of status >= 500 that carries x-ratelimit-reset: s
\* is followed by a wait of s * 1000 ms instead of the computed backoff delay.
C30_ResetHeaderSetsWaitAfter5xx ==
  \A i \in DOMAIN inv :
    LET r == inv[i]
    IN (/\ r.pc = "sleep"
        /\ Last(r.hist) >= 500
        /\ HeaderTruthy(Get(r.response).reset)) =>
         r.wait = Some(SecondsOf(Get(r.response).reset.val) * 1000)

C30_Witness ==
  \E i \in DOMAIN inv :
    /\ inv[i].pc = "sleep"
    /\ Last(inv[i].hist) = 503
    /\ inv[i].retry.backoff = "fixed"
    /\ inv[i].retry.baseMs = Some(100)
    /\ Get(inv[i].response).reset = [has |-> TRUE, val |-> <<2>>]
    /\ inv[i].wait = Some(2000)

\* the query a list method sends for its options
ListQuery(o) ==
  LET size == IF TruthyNumber(o.maxPageSize)
                THEN "maxPageSize=" \o ToString(Get(o.maxPageSize)) ELSE ""
      token == IF TruthyString(o.pageToken) THEN "pageToken=" \o Get(o.pageToken) ELSE ""
  IN IF size # "" /\ token # "" THEN size \o "&" \o token ELSE size \o token

\* C26: Groups.listGroupRoles(groupId, options) sends options.maxPageSize and
\* options.pageToken as query parameters of its request, so passing the
\* nextPageToken of one page requests the next page.
C26_ListGroupRolesSendsPaging ==
  called.method = "listGroupRoles" =>
    \A i \in DOMAIN inv :
      \A k \in DOMAIN inv[i].calls :
        inv[i].calls[k].url.search = ListQuery(called.options)

\* C29: all attempts of one request send the same URL, method, headers and
\* body, so the idempotencyKey.key and idempotencyKey.firstSent that
\* Universes.updateUserRestriction puts in the query are those of the call on
\* every retry.
C29_AttemptsSendTheSameRequest ==
  \A i \in DOMAIN inv :
    \A k \in DOMAIN inv[i].calls :
      /\ inv[i].calls[k] = inv[i].calls[1]
      /\ called.method = "updateUserRestriction" =>
           inv[i].calls[k].url.search =
             "updateMask=game_join_restriction&idempotencyKey.key=" \o called.idempotencyKey
               \o "&idempotencyKey.firstSent=" \o FormEncode(called.firstSent)

C29_Witness ==
  \E i \in DOMAIN inv :
    /\ called.method = "updateUserRestriction"
    /\ Settled(inv[i])
    /\ Len(inv[i].calls) = 3
    /\ inv[i].calls[3].method = Some("PATCH")
    /\ inv[i].calls[3].body = Some(RestrictionBody)

\* C28: every request call terminates, by returning a payload or raising an
\* error, after at most attempts + 1 transport calls and attempts waits,
\* provided each transport call and each wait completes.
C28_EveryRequestTerminates ==
  /\ [](\A i \in DOMAIN inv : /\ Len(inv[i].calls) <= inv[i].retry.attempts + 1
                              /\ inv[i].sleeps <= inv[i].retry.attempts)
  /\ (\E i \in DOMAIN inv : ~Settled(inv[i])) ~> (\A i \in DOMAIN inv : Settled(inv[i]))

C28_Witness ==
  \E i \in DOMAIN inv :
    /\ Settled(inv[i])
    /\ inv[i].retry.attempts = MaxAttempts
    /\ Len(inv[i].calls) = MaxAttempts + 1
    /\ inv[i].sleeps = MaxAttempts

\* the invocation's own counter and calls, and an outcome that follows from
\* the responses to its own calls
SelfContained(r) ==
  /\ r.attempt = r.sleeps - (IF r.pc = "sleep" THEN 1 ELSE 0)
  /\ r.attempt = Len(r.hist) - (IF r.pc \in {"fetch", "awaiting"} THEN 0 ELSE 1)
       \/ (Settled(r) /\ ~Answered(r) /\ r.attempt = Len(r.hist))
  /\ Len(r.calls) <= r.retry.attempts + 1
  /\ Settled(r) =>
       IF ~Answered(r) THEN r.error = Some(ForeignError("TypeError"))
       ELSE IF ResponseOk(Last(r.hist))
         THEN r.pc = "returned" /\ r.payload = ExpectedPayload(Get(r.response))
       ELSE /\ r.pc = "thrown"
            /\ Get(r.error).class = ExpectedClass(Last(r.hist))
            /\ Get(r.error).status = Some(Last(r.hist))
            /\ StatusRetryable(Last(r.hist)) => Len(r.calls) = r.retry.attempts + 1

\* a step changes at most one invocation and never the client's options
OneInvocationPerStep ==
  /\ options' = options
  /\ \A i \in DOMAIN inv :
       /\ i \in DOMAIN inv'
       /\ inv'[i] # inv[i] => \A j \in DOMAIN inv \ {i} : inv'[j] = inv[j]

\* C21: concurrent request invocations on one HttpClient do not interfere: in
\* every interleaving each keeps its own attempt counter, makes at most
\* attempts + 1 transport calls and has an outcome that depends only on the
\* responses to its own calls, and no step of one changes another.
C21_ConcurrentRequestsDoNotInterfere ==
  /\ [](\A i \in DOMAIN inv : SelfContained(inv[i]))
  /\ [][OneInvocationPerStep]_vars

C21_Witness ==
  /\ Len(inv) = 2
  /\ inv[1].pc = "sleep"
  /\ inv[1].attempt = 0
  /\ inv[2].pc = "thrown"
  /\ inv[2].attempt = 2
  /\ Len(inv[2].calls) = 3

====
